---- MODULE Spec2Model ----
(***************************************************************************)
(* ETL_pipeline_project: the incremental pipeline (incremental_pipeline.py) *)
(* over a growing sales.csv, the validating pipeline                        *)
(* (etl_pipeline_with_validations.py), the cleaning pipeline (load_data.py) *)
(* and the enrichment pipeline (etl_data_enrichment.py: the metadata       *)
(* fetch, the enrichment, the three transforms and main), with the         *)
(* destination store they write.                                           *)
(*                                                                         *)
(* Tables are sequences of rows in insertion order.  The sales table is as *)
(* pandas to_sql creates it (no key or foreign-key constraint); a write    *)
(* the database rejects is one of the failures every write may have.       *)
(* Dates are day numbers 1..MaxDate; the files hold them as strings.       *)
(***************************************************************************)
EXTENDS Integers, Sequences, FiniteSets, TLC

VARIABLES
    sales_csv,      \* sales.csv: raw rows, transaction_date still a string
    products_csv,   \* products.csv
    customers_csv,  \* customers.csv
    products,       \* destination table products
    customers,      \* destination table customers
    sales,          \* destination table sales
    watermark,      \* etl_state.last_processed_date of row id = 1, None when no row
    last,           \* what the last pipeline run did (the run's log lines)
    call,           \* arguments of a function applied on its own
    ret,            \* its result
    products_transformed,   \* destination table products_transformed
    sales_transformed,      \* destination table sales_transformed
    customers_transformed,  \* destination table customers_transformed
    etl_state,      \* etl_state rows (table_name, time_processed) of the enrichment pipeline
    now             \* datetime.now(), counted in runs of the enrichment pipeline

\* what only the enrichment pipeline's main writes
enrichment_store == <<products_transformed, sales_transformed,
                      customers_transformed, etl_state, now>>

vars == <<sales_csv, products_csv, customers_csv, products, customers, sales,
          watermark, last, call, ret, enrichment_store>>

\* the destination before the enrichment pipeline has run
InitEnrichmentStore ==
    /\ products_transformed = <<>>
    /\ sales_transformed = <<>>
    /\ customers_transformed = <<>>
    /\ etl_state = <<>>
    /\ now = 0

----------------------------------------------------------------------------
(* Bounds *)

MaxDate == 3        \* distinct calendar days in the files
MaxSrc == 3         \* rows the growing sales.csv reaches
MaxSales == 4       \* rows the sales table reaches before runs stop

----------------------------------------------------------------------------
(* Values *)

NaN == -1000        \* a missing cell (None / NaN)
NaT == -1           \* a date that did not parse (errors='coerce')
None == -2          \* Python None: no watermark row, or the read failed

DateStrings == <<"2024-01-01", "2024-01-02", "2024-01-03", "2024-01-04",
                 "2024-01-05", "2024-01-06">>
BadDateStrings == {"InvalidDate"}

Dates == 1..MaxDate

Range(s) == {s[i] : i \in DOMAIN s}

\* pd.to_datetime(column, errors='coerce') on one cell
to_datetime(s) ==
    IF \E i \in Dates : DateStrings[i] = s
    THEN CHOOSE i \in Dates : DateStrings[i] = s
    ELSE NaT

\* one row of sales.csv
SaleRow(tid, pid, cid, qty, td) ==
    [transaction_id |-> tid, product_id |-> pid, customer_id |-> cid,
     quantity |-> qty, transaction_date |-> td]

----------------------------------------------------------------------------
(* incremental_pipeline.py *)

\* read_csv, to_datetime(errors='coerce'), dropna(subset=['transaction_date'])
read_sales_dropna(csv) ==
    LET parsed == [i \in DOMAIN csv |->
                     [csv[i] EXCEPT !.transaction_date = to_datetime(@)]]
        HasDate(r) == r.transaction_date # NaT
    IN SelectSeq(parsed, HasDate)

\* SELECT last_processed_date ... LIMIT 1; an SQLAlchemyError is logged and
\* None returned
get_last_processed_date(wm, ok) == IF ok THEN wm ELSE None

\* INSERT ... ON CONFLICT (id) DO UPDATE SET last_processed_date = new_date;
\* an SQLAlchemyError is logged and swallowed.  ok = FALSE is also the
\* statement left uncommitted when the connection closes.
update_last_processed_date(wm, new_date, ok) == IF ok THEN new_date ELSE wm

\* sales_df[sales_df['transaction_date'] > last_processed_date]
\*     if last_processed_date else sales_df
new_sales_df(df, lpd) ==
    LET After(r) == r.transaction_date > lpd
    IN IF lpd # None THEN SelectSeq(df, After) ELSE df

min_date(df) ==
    CHOOSE d \in {df[i].transaction_date : i \in DOMAIN df} :
        \A i \in DOMAIN df : d <= df[i].transaction_date

\* new_sales_df['transaction_date'].max().date()
max_date(df) ==
    CHOOSE d \in {df[i].transaction_date : i \in DOMAIN df} :
        \A i \in DOMAIN df : d >= df[i].transaction_date

RunLog(lpd, batch, error, advanced) ==
    [op |-> "process_sales_data", lpd |-> lpd, batch |-> batch,
     error |-> error, advanced |-> advanced]

\* The same run with the watermark written before the append.
process_sales_data_advance_first(csv_ok, get_ok, cmp_ok, sql_ok, upd_ok) ==
    /\ UNCHANGED <<enrichment_store, sales_csv, products_csv, customers_csv, products,
                   customers, call, ret>>
    /\ IF ~csv_ok
       THEN /\ UNCHANGED <<sales, watermark>>
            /\ last' = RunLog(None, <<>>, "read_csv", FALSE)
       ELSE LET df == read_sales_dropna(sales_csv)
                lpd == get_last_processed_date(watermark, get_ok)
                new == new_sales_df(df, lpd)
            IN IF lpd # None /\ ~cmp_ok
               THEN /\ UNCHANGED <<sales, watermark>>
                    /\ last' = RunLog(lpd, <<>>, "compare", FALSE)
               ELSE IF new = <<>>
               THEN /\ UNCHANGED <<sales, watermark>>
                    /\ last' = RunLog(lpd, new, "none", FALSE)
               ELSE /\ watermark' =
                          update_last_processed_date(watermark, max_date(new), upd_ok)
                    /\ IF ~sql_ok
                       THEN /\ UNCHANGED sales
                            /\ last' = RunLog(lpd, new, "to_sql", upd_ok)
                       ELSE /\ Len(sales) + Len(new) <= MaxSales
                            /\ sales' = sales \o new
                            /\ last' = RunLog(lpd, new, "none", upd_ok)

\* process_sales_data('sales.csv'): one whole run.  The inputs say which of
\* its steps the environment lets succeed: reading the file, reading the
\* watermark, comparing the date column with the stored date (a TypeError in
\* pandas versions that refuse datetime64 > datetime.date), the append, the
\* watermark write.  Any exception is caught and logged by the run.
process_sales_data(csv_ok, get_ok, cmp_ok, sql_ok, upd_ok) ==
    /\ UNCHANGED <<enrichment_store, sales_csv, products_csv, customers_csv, products,
                   customers, call, ret>>
    /\ IF ~csv_ok
       THEN /\ UNCHANGED <<sales, watermark>>
            /\ last' = RunLog(None, <<>>, "read_csv", FALSE)
       ELSE LET df == read_sales_dropna(sales_csv)
                lpd == get_last_processed_date(watermark, get_ok)
                new == new_sales_df(df, lpd)
            IN IF lpd # None /\ ~cmp_ok
               THEN /\ UNCHANGED <<sales, watermark>>
                    /\ last' = RunLog(lpd, <<>>, "compare", FALSE)
               ELSE IF new = <<>>
               THEN /\ UNCHANGED <<sales, watermark>>
                    /\ last' = RunLog(lpd, new, "none", FALSE)
               ELSE IF ~sql_ok
               THEN /\ UNCHANGED <<sales, watermark>>
                    /\ last' = RunLog(lpd, new, "to_sql", FALSE)
               ELSE /\ Len(sales) + Len(new) <= MaxSales
                    /\ sales' = sales \o new
                    /\ watermark' =
                          update_last_processed_date(watermark, max_date(new), upd_ok)
                    /\ last' = RunLog(lpd, new, "none", upd_ok)

\* sales.csv grows by one row between runs (rows as create_sales_csv writes
\* them: transaction_id counts up, the date is a day or garbage)
IncDateStrings == {DateStrings[i] : i \in Dates} \cup BadDateStrings

AppendSourceRow(td) ==
    /\ Len(sales_csv) < MaxSrc
    /\ sales_csv' = Append(sales_csv, SaleRow(Len(sales_csv) + 1, 1, 1, 2, td))
    /\ UNCHANGED <<enrichment_store, products_csv, customers_csv, products, customers, sales,
                   watermark, last, call, ret>>

\* update_last_processed_date(new_date) called on its own, as the Watermark
\* Store's advance
UpdateLastProcessedDate(new_date, ok) ==
    /\ watermark' = update_last_processed_date(watermark, new_date, ok)
    /\ last' = [op |-> "update_last_processed_date", new_date |-> new_date,
                stored |-> watermark, error |-> IF ok THEN "none" ELSE "sql"]
    /\ UNCHANGED <<enrichment_store, sales_csv, products_csv, customers_csv, products,
                   customers, sales, call, ret>>

NoRun == [op |-> "none"]
NoCall == [fn |-> "none"]

Init ==
    /\ sales_csv = <<>>
    /\ products_csv = <<>>
    /\ customers_csv = <<>>
    /\ products = <<>>
    /\ customers = <<>>
    /\ sales = <<>>
    /\ watermark = None
    /\ last = NoRun
    /\ call = NoCall
    /\ ret = NoCall
    /\ InitEnrichmentStore

Next ==
    \/ \E td \in IncDateStrings : AppendSourceRow(td)
    \/ \E csv_ok, get_ok, cmp_ok, sql_ok, upd_ok \in BOOLEAN :
          process_sales_data(csv_ok, get_ok, cmp_ok, sql_ok, upd_ok)

Spec == Init /\ [][Next]_vars

\* the incremental runs, and the watermark advanced by direct calls
NextAdvance ==
    \/ Next
    \/ \E d \in Dates, ok \in BOOLEAN : UpdateLastProcessedDate(d, ok)

SpecAdvance == Init /\ [][NextAdvance]_vars

----------------------------------------------------------------------------
(* load_data.py: the cleaning pipeline *)

Date2000 == 0       \* datetime(2000, 1, 1).date(): before every day of the files

MissingId == -1     \* fillna(-1)

ProductRow(pid, name, cat, price) ==
    [product_id |-> pid, product_name |-> name, category |-> cat, price |-> price]

CustomerRow(cid, name, email, country) ==
    [customer_id |-> cid, name |-> name, email |-> email, country |-> country]

\* pd.to_numeric(cell, errors='coerce') on the price strings of the files
to_numeric(s) ==
    CASE s = "10" -> 10
      [] s = "25" -> 25
      [] s = "0" -> 0
      [] s = "-5" -> -5
      [] OTHER -> NaN

valid_categories == {"Electronics", "Clothing", "Books", "Food"}

\* a text cell left empty in the file is read as NaN
IsNullText(s) == s = ""

\* clean_products(df)
clean_products(df) ==
    [i \in DOMAIN df |->
        LET r == df[i]
            p == to_numeric(r.price)
        IN ProductRow(r.product_id,
                      IF IsNullText(r.product_name) THEN "Unknown" ELSE r.product_name,
                      IF r.category \in valid_categories THEN r.category ELSE "Other",
                      IF p = NaN \/ p < 0 THEN 0 ELSE p)]

\* "@" in x and "." in x, on the addresses of the files
EmailsWithAt == {"ann@example.com", "bob@localhost"}
EmailsWithDot == {"ann@example.com", "bob.example"}

\* df.drop_duplicates(subset=['customer_id'], keep='first')
drop_duplicates_customer_id(df) ==
    LET idx == {i \in DOMAIN df :
                   \A j \in 1..(i - 1) : df[j].customer_id # df[i].customer_id}
        F[n \in 0..Len(df)] ==
            IF n = 0 THEN <<>>
            ELSE IF n \in idx THEN Append(F[n - 1], df[n]) ELSE F[n - 1]
    IN F[Len(df)]

\* clean_customers(df)
clean_customers(df) ==
    LET d == drop_duplicates_customer_id(df)
    IN [i \in DOMAIN d |->
          LET r == d[i]
          IN CustomerRow(r.customer_id, r.name,
                         IF r.email \in EmailsWithAt /\ r.email \in EmailsWithDot
                         THEN r.email ELSE "invalid@example.com",
                         IF IsNullText(r.country) THEN "Unknown" ELSE r.country)]

\* df['quantity'].apply(lambda x: max(x, 1) if x > 0 else 1)
repair_quantity(x) == IF x > 0 THEN (IF x > 1 THEN x ELSE 1) ELSE 1

\* clean_sales(df): every row is kept
clean_sales(df) ==
    [i \in DOMAIN df |->
        LET r == df[i]
            d == to_datetime(r.transaction_date)
        IN SaleRow(r.transaction_id,
                   IF r.product_id = NaN THEN MissingId ELSE r.product_id,
                   IF r.customer_id = NaN THEN MissingId ELSE r.customer_id,
                   repair_quantity(r.quantity),
                   IF d = NaT THEN Date2000 ELSE d)]

\* one step of a run: what is done (phase) and for which entity
Step(phase, entity) == [phase |-> phase, entity |-> entity]

\* the statements of etl_pipeline in the order it runs them (lines 119-144)
EtlSteps ==
    <<Step("extract", "all"),
      Step("transform", "product"), Step("transform", "customer"),
      Step("transform", "sale"),
      Step("load", "product"), Step("load", "customer"), Step("load", "sale")>>

\* what a run of etl_pipeline did: the error that ended it, the number of
\* tables it loaded, the steps it started (a failure of the cleaning is
\* logged at its first step)
EtlLog(error, loaded) ==
    [op |-> "etl_pipeline", error |-> error, loaded |-> loaded,
     steps |-> CASE error = "extract" -> SubSeq(EtlSteps, 1, 1)
                 [] error = "clean" -> SubSeq(EtlSteps, 1, 2)
                 [] error = "load" -> SubSeq(EtlSteps, 1, 5 + loaded)
                 [] OTHER -> EtlSteps]

\* etl_pipeline(folder_path): extract, clean, then load_to_db (if_exists=
\* 'replace') products, customers, sales in one try.  fail_at is the load
\* that raises (0: none); the loads before it are committed.
etl_pipeline(extract_ok, clean_ok, fail_at) ==
    /\ UNCHANGED <<enrichment_store, sales_csv, products_csv, customers_csv, watermark, call, ret>>
    /\ IF ~extract_ok
       THEN /\ UNCHANGED <<products, customers, sales>>
            /\ last' = EtlLog("extract", 0)
       ELSE IF ~clean_ok
       THEN /\ UNCHANGED <<products, customers, sales>>
            /\ last' = EtlLog("clean", 0)
       ELSE /\ products' = IF fail_at = 1 THEN products
                           ELSE clean_products(products_csv)
            /\ customers' = IF fail_at \in {1, 2} THEN customers
                            ELSE clean_customers(customers_csv)
            /\ sales' = IF fail_at \in {1, 2, 3} THEN sales
                        ELSE clean_sales(sales_csv)
            /\ last' = IF fail_at = 0 THEN EtlLog("none", 3)
                       ELSE EtlLog("load", fail_at - 1)

----------------------------------------------------------------------------
(* etl_pipeline_with_validations.py: the validating pipeline *)

\* sales_df['transaction_date'] = pd.to_datetime(..., errors='coerce')
parse_dates(csv) ==
    [i \in DOMAIN csv |-> [csv[i] EXCEPT !.transaction_date = to_datetime(@)]]

\* products_df['product_id'].tolist()
id_list(table, col) == {table[i][col] : i \in DOMAIN table}

\* products_df.set_index('product_id')['price'].to_dict(): the last row of a
\* key wins
price_dict(table) ==
    [k \in id_list(table, "product_id") |->
        LET i == CHOOSE i \in DOMAIN table :
                    /\ table[i].product_id = k
                    /\ \A j \in DOMAIN table : table[j].product_id = k => j <= i
        IN table[i].price]

ValidatedRow(r, price) ==
    [transaction_id |-> r.transaction_id, product_id |-> r.product_id,
     customer_id |-> r.customer_id, quantity |-> r.quantity,
     transaction_date |-> r.transaction_date,
     price |-> price, revenue |-> r.quantity * price]

\* The same validation with the two membership tests joined by "or".
validate_sales_data_either(df, valid_product_ids, valid_customer_ids, product_prices) ==
    LET Critical(r) == /\ r.product_id # NaN
                       /\ r.customer_id # NaN
                       /\ r.transaction_date # NaT
        d1 == SelectSeq(df, Critical)
        d2 == [i \in DOMAIN d1 |->
                 [d1[i] EXCEPT !.quantity = repair_quantity(@)]]
        Known(r) == \/ r.product_id \in valid_product_ids
                    \/ r.customer_id \in valid_customer_ids
        d3 == SelectSeq(d2, Known)
    IN [i \in DOMAIN d3 |->
          ValidatedRow(d3[i], IF d3[i].product_id \in DOMAIN product_prices
                              THEN product_prices[d3[i].product_id] ELSE NaN)]

\* validate_sales_data(df, valid_product_ids, valid_customer_ids, product_prices)
validate_sales_data(df, valid_product_ids, valid_customer_ids, product_prices) ==
    LET Critical(r) == /\ r.product_id # NaN
                       /\ r.customer_id # NaN
                       /\ r.transaction_date # NaT
        d1 == SelectSeq(df, Critical)
        d2 == [i \in DOMAIN d1 |->
                 [d1[i] EXCEPT !.quantity = repair_quantity(@)]]
        Known(r) == /\ r.product_id \in valid_product_ids
                    /\ r.customer_id \in valid_customer_ids
        d3 == SelectSeq(d2, Known)
    IN [i \in DOMAIN d3 |->
          ValidatedRow(d3[i], IF d3[i].product_id \in DOMAIN product_prices
                              THEN product_prices[d3[i].product_id] ELSE NaN)]

\* sales_df.drop(columns=['price', 'revenue'])
drop_price_revenue(df) ==
    [i \in DOMAIN df |->
        SaleRow(df[i].transaction_id, df[i].product_id, df[i].customer_id,
                df[i].quantity, df[i].transaction_date)]

LoadLog(batch, error) == [op |-> "load_sales_data", batch |-> batch, error |-> error]

\* load_sales_data('sales.csv'): read and parse the file, read the key sets
\* and prices from products and customers, validate, append to sales.  Any
\* exception is caught and logged.
load_sales_data(csv_ok, db_ok, sql_ok) ==
    /\ UNCHANGED <<enrichment_store, sales_csv, products_csv, customers_csv, products, customers,
                   watermark, call, ret>>
    /\ IF ~csv_ok
       THEN /\ UNCHANGED sales
            /\ last' = LoadLog(<<>>, "read_csv")
       ELSE IF ~db_ok
       THEN /\ UNCHANGED sales
            /\ last' = LoadLog(<<>>, "read_sql")
       ELSE LET df == parse_dates(sales_csv)
                validated == validate_sales_data(df,
                                 id_list(products, "product_id"),
                                 id_list(customers, "customer_id"),
                                 price_dict(products))
                batch == drop_price_revenue(validated)
            IN IF ~sql_ok
               THEN /\ UNCHANGED sales
                    /\ last' = LoadLog(batch, "to_sql")
               ELSE /\ Len(sales) + Len(batch) <= MaxSales
                    /\ sales' = sales \o batch
                    /\ last' = LoadLog(batch, "none")

----------------------------------------------------------------------------
(* The destination store under the three pipelines that write sales *)

MaxFile == 2        \* rows of the sales.csv the three pipelines share

\* product_id, customer_id, quantity, transaction_date of a row: a clean row
\* and rows with one or two of the defects create_sales_csv plants
StoreAttrs ==
    {<<1, 1, 2, DateStrings[1]>>,
     <<NaN, 1, 2, DateStrings[1]>>,
     <<1, NaN, 2, DateStrings[1]>>,
     <<2, 1, 2, DateStrings[1]>>,
     <<1, 2, 0, DateStrings[1]>>,
     <<1, 1, 0, DateStrings[2]>>,
     <<1, 1, 2, "InvalidDate">>}

\* sales.csv files of k rows, transaction_id counting up
SalesFiles(attrs, k) ==
    {[i \in 1..k |-> SaleRow(i, a[i][1], a[i][2], a[i][3], a[i][4])] :
        a \in [1..k -> attrs]}

StoreSalesFiles == UNION {SalesFiles(StoreAttrs, k) : k \in 0..MaxFile}

StoreProductsFiles ==
    {<<ProductRow(1, "lamp", "Electronics", "10")>>,
     <<ProductRow(1, "lamp", "Electronics", "10"), ProductRow(2, "", "Toys", "abc")>>}

StoreCustomersFiles ==
    {<<CustomerRow(1, "Ann Lee", "ann@example.com", "France")>>,
     <<CustomerRow(1, "Ann Lee", "ann@example.com", "France"),
       CustomerRow(2, "Bob Ray", "bob.example", ""),
       CustomerRow(1, "Ann Lee", "ann@example.com", "France")>>}

InitStore ==
    /\ sales_csv \in StoreSalesFiles
    /\ products_csv \in StoreProductsFiles
    /\ customers_csv \in StoreCustomersFiles
    /\ products = <<>>
    /\ customers = <<>>
    /\ sales = <<>>
    /\ watermark = None
    /\ last = NoRun
    /\ call = NoCall
    /\ ret = NoCall
    /\ InitEnrichmentStore

NextStore ==
    \/ \E extract_ok, clean_ok \in BOOLEAN, fail_at \in 0..3 :
          etl_pipeline(extract_ok, clean_ok, fail_at)
    \/ \E csv_ok, db_ok, sql_ok \in BOOLEAN :
          load_sales_data(csv_ok, db_ok, sql_ok)
    \/ \E csv_ok, get_ok, cmp_ok, sql_ok, upd_ok \in BOOLEAN :
          process_sales_data(csv_ok, get_ok, cmp_ok, sql_ok, upd_ok)

SpecStore == InitStore /\ [][NextStore]_vars

----------------------------------------------------------------------------
(* validate_sales_data applied to every small batch and key set *)

MaxBatch == 2       \* rows of a batch given to a function on its own

Keys == {1, 2}
PriceOf == [k \in Keys |-> 10 * k]

ValidateAttrs == {NaN, 1, 2} \X {NaN, 1, 2} \X {-3, 2} \X {"InvalidDate", DateStrings[1]}

KeySets == {{}, {1}, {1, 2}}

InitValidate ==
    /\ sales_csv = <<>>
    /\ products_csv = <<>>
    /\ customers_csv = <<>>
    /\ products = <<>>
    /\ customers = <<>>
    /\ sales = <<>>
    /\ watermark = None
    /\ last = NoRun
    /\ \E vp \in KeySets, vc \in KeySets :
          call = [fn |-> "validate_sales_data", df |-> <<>>,
                  valid_product_ids |-> vp, valid_customer_ids |-> vc,
                  product_prices |-> [k \in vp |-> PriceOf[k]]]
    /\ ret = NoCall
    /\ InitEnrichmentStore

\* one more row read into the batch (read_csv, then to_datetime) before the
\* function is applied
AddValidateRow(a) ==
    /\ call.fn = "validate_sales_data"
    /\ ret = NoCall
    /\ Len(call.df) < MaxBatch
    /\ call' = [call EXCEPT !.df = @ \o
                   parse_dates(<<SaleRow(Len(call.df) + 1, a[1], a[2], a[3], a[4])>>)]
    /\ UNCHANGED <<enrichment_store, sales_csv, products_csv, customers_csv, products, customers,
                   sales, watermark, last, ret>>

ApplyValidate ==
    /\ call.fn = "validate_sales_data"
    /\ ret = NoCall
    /\ ret' = [fn |-> "validate_sales_data",
               df |-> validate_sales_data(call.df, call.valid_product_ids,
                                          call.valid_customer_ids,
                                          call.product_prices)]
    /\ UNCHANGED <<enrichment_store, sales_csv, products_csv, customers_csv, products, customers,
                   sales, watermark, last, call>>

NextValidate ==
    \/ \E a \in ValidateAttrs : AddValidateRow(a)
    \/ ApplyValidate

SpecValidate == InitValidate /\ [][NextValidate]_vars

----------------------------------------------------------------------------
(* etl_data_enrichment.py, etl_pipeline_api_extended.py: enrich_product_data *)

MaxMeta == 2        \* records of the metadata collection

\* astype(str) on the integer product_id column
IntStrings == <<"1", "2", "3">>
astype_str(i) == IntStrings[i]

\* .str.strip() on the ids the API returns
strip(s) ==
    CASE s = " 1 " -> "1"
      [] s = "2 " -> "2"
      [] OTHER -> s

\* one record of metadata_df as fetch_product_metadata returns it
MetadataRow(id, api, desc, rating, status) ==
    [id |-> id, product_id_api |-> api, description |-> desc,
     rating |-> rating, availability_status |-> status]

\* pd.merge(products_df, metadata_df, left_on='product_id', right_on='id',
\* how='left') followed by drop(columns=['id']): every left row once per
\* matching right row, in order; once with empty cells when none matches
merge_left_drop_id(left, right) ==
    LET RowsFor(p) ==
            LET Match(m) == m.id = p.product_id
                ms == SelectSeq(right, Match)
            IN IF ms = <<>>
               THEN <<[product_id |-> p.product_id, product_name |-> p.product_name,
                       category |-> p.category, price |-> p.price,
                       product_id_api |-> "", description |-> "",
                       rating |-> NaN, availability_status |-> ""]>>
               ELSE [i \in DOMAIN ms |->
                       [product_id |-> p.product_id, product_name |-> p.product_name,
                        category |-> p.category, price |-> p.price,
                        product_id_api |-> ms[i].product_id_api,
                        description |-> ms[i].description,
                        rating |-> ms[i].rating,
                        availability_status |-> ms[i].availability_status]]
        F[n \in 0..Len(left)] ==
            IF n = 0 THEN <<>> ELSE F[n - 1] \o RowsFor(left[n])
    IN F[Len(left)]

\* enrich_product_data(products_df, metadata_df)
enrich_product_data(products_df, metadata_df) ==
    IF metadata_df = <<>>
    THEN [i \in DOMAIN products_df |->
            [product_id |-> products_df[i].product_id,
             product_name |-> products_df[i].product_name,
             category |-> products_df[i].category,
             price |-> products_df[i].price,
             description |-> "No description available",
             rating |-> 0,
             availability_status |-> "Unknown"]]
    ELSE LET left == [i \in DOMAIN products_df |->
                        [products_df[i] EXCEPT !.product_id = strip(astype_str(@))]]
             right == [i \in DOMAIN metadata_df |->
                         [metadata_df[i] EXCEPT !.id = strip(@)]]
             merged == merge_left_drop_id(left, right)
         IN [i \in DOMAIN merged |->
               [merged[i] EXCEPT
                  !.description = IF IsNullText(@) THEN "No description available" ELSE @,
                  !.rating = IF @ = NaN THEN 0 ELSE @,
                  !.availability_status = IF IsNullText(@) THEN "Unknown" ELSE @]]

EnrichProductIds == {1, 2}

EnrichMetadata ==
    {MetadataRow(id, "p", desc, 4, "In stock") :
        id \in {"1", " 1 ", "7"}, desc \in {"first", "second"}}

InitEnrich ==
    /\ sales_csv = <<>>
    /\ products_csv = <<>>
    /\ customers_csv = <<>>
    /\ products = <<>>
    /\ customers = <<>>
    /\ sales = <<>>
    /\ watermark = None
    /\ last = NoRun
    /\ call = [fn |-> "enrich_product_data", products_df |-> <<>>,
               metadata_df |-> <<>>]
    /\ ret = NoCall
    /\ InitEnrichmentStore

\* one more row of products.csv read into products_df
AddEnrichProduct(pid) ==
    /\ call.fn = "enrich_product_data"
    /\ ret = NoCall
    /\ Len(call.products_df) < MaxBatch
    /\ call' = [call EXCEPT !.products_df =
                   Append(@, ProductRow(pid, "lamp", "Electronics", "10"))]
    /\ UNCHANGED <<enrichment_store, sales_csv, products_csv, customers_csv, products, customers,
                   sales, watermark, last, ret>>

\* one more record fetched into metadata_df
AddEnrichMetadata(m) ==
    /\ call.fn = "enrich_product_data"
    /\ ret = NoCall
    /\ Len(call.metadata_df) < MaxMeta
    /\ call' = [call EXCEPT !.metadata_df = Append(@, m)]
    /\ UNCHANGED <<enrichment_store, sales_csv, products_csv, customers_csv, products, customers,
                   sales, watermark, last, ret>>

ApplyEnrich ==
    /\ call.fn = "enrich_product_data"
    /\ ret = NoCall
    /\ ret' = [fn |-> "enrich_product_data",
               df |-> enrich_product_data(call.products_df, call.metadata_df)]
    /\ UNCHANGED <<enrichment_store, sales_csv, products_csv, customers_csv, products, customers,
                   sales, watermark, last, call>>

NextEnrich ==
    \/ \E pid \in EnrichProductIds : AddEnrichProduct(pid)
    \/ \E m \in EnrichMetadata : AddEnrichMetadata(m)
    \/ ApplyEnrich

SpecEnrich == InitEnrich /\ [][NextEnrich]_vars

----------------------------------------------------------------------------
(* etl_data_enrichment.py: fetch_product_metadata *)

MaxPages == 3       \* pages the API serves, and the largest max_pages

\* one object of a page as the API sends it
RawMetadata(id, desc, rating) ==
    [id |-> id, product_id |-> "p", description |-> desc, rating |-> rating,
     availability_status |-> "In stock"]

\* what requests.get(f"{api_url}?page={page}", timeout=10) can come back with:
\* status 200 and a JSON list (kind "page", the list may be empty), another
\* status, a requests exception, or status 200 with a body that is not JSON
Response(kind, data) == [kind |-> kind, data |-> data]

Responses ==
    {Response("page", <<RawMetadata(" 1 ", "first", "10")>>),
     Response("page", <<RawMetadata("2 ", "second", "abc"),
                        RawMetadata("7", "", "0")>>),
     Response("page", <<>>),
     Response("status", <<>>),
     Response("exception", <<>>),
     Response("bad_json", <<>>)}

\* the API past its last page answers 200 with an empty list
page_response(server, page) ==
    IF page <= Len(server) THEN server[page] ELSE Response("page", <<>>)

\* astype(str) on a text column: a missing cell becomes the text "None"
astype_str_text(s) == IF s = "" THEN "None" ELSE s

\* lines 62-72: the accumulated objects as the returned frame
normalize_metadata(product_metadata) ==
    [i \in DOMAIN product_metadata |->
        MetadataRow(strip(product_metadata[i].id),
                    product_metadata[i].product_id,
                    astype_str_text(product_metadata[i].description),
                    IF to_numeric(product_metadata[i].rating) = NaN
                    THEN 0 ELSE to_numeric(product_metadata[i].rating),
                    astype_str_text(product_metadata[i].availability_status))]

FetchResult(requests, df, raised) ==
    [fn |-> "fetch_product_metadata", requests |-> requests, df |-> df,
     raised |-> raised]

\* the while loop with a non-200 status skipped instead of ending the loop
RECURSIVE fetch_loop_skip_status(_, _, _, _, _, _)
fetch_loop_skip_status(server, max_pages, json_caught, page, product_metadata, requests) ==
    IF page > max_pages
    THEN FetchResult(requests, normalize_metadata(product_metadata), FALSE)
    ELSE LET response == page_response(server, page)
             sent == Append(requests, page)
         IN CASE response.kind = "page" /\ response.data # <<>> ->
                    fetch_loop_skip_status(server, max_pages, json_caught, page + 1,
                                           product_metadata \o response.data, sent)
              [] response.kind = "page" /\ response.data = <<>> ->
                    FetchResult(sent, normalize_metadata(product_metadata), FALSE)
              [] response.kind = "status" ->
                    fetch_loop_skip_status(server, max_pages, json_caught, page + 1,
                                           product_metadata, sent)
              [] response.kind = "exception" ->
                    FetchResult(sent, normalize_metadata(product_metadata), FALSE)
              [] OTHER ->
                    IF json_caught
                    THEN FetchResult(sent, normalize_metadata(product_metadata), FALSE)
                    ELSE FetchResult(sent, <<>>, TRUE)

\* the while loop of lines 40-55 from page `page` on, then lines 57-75.
\* response.json() on a body that is not JSON raises an error that is a
\* RequestException in some versions of requests (json_caught) and a plain
\* ValueError, which nothing catches, in the others.
RECURSIVE fetch_loop(_, _, _, _, _, _)
fetch_loop(server, max_pages, json_caught, page, product_metadata, requests) ==
    IF page > max_pages
    THEN FetchResult(requests, normalize_metadata(product_metadata), FALSE)
    ELSE LET response == page_response(server, page)
             sent == Append(requests, page)
         IN CASE response.kind = "page" /\ response.data # <<>> ->
                    fetch_loop(server, max_pages, json_caught, page + 1,
                               product_metadata \o response.data, sent)
              [] response.kind = "page" /\ response.data = <<>> ->
                    FetchResult(sent, normalize_metadata(product_metadata), FALSE)
              [] response.kind = "status" ->
                    FetchResult(sent, normalize_metadata(product_metadata), FALSE)
              [] response.kind = "exception" ->
                    FetchResult(sent, normalize_metadata(product_metadata), FALSE)
              [] OTHER ->
                    IF json_caught
                    THEN FetchResult(sent, normalize_metadata(product_metadata), FALSE)
                    ELSE FetchResult(sent, <<>>, TRUE)

\* fetch_product_metadata(api_url, max_pages) against an API that answers
\* page p with server[p]
fetch_product_metadata(server, max_pages, json_caught) ==
    fetch_loop(server, max_pages, json_caught, 1, <<>>, <<>>)

InitFetch ==
    /\ sales_csv = <<>>
    /\ products_csv = <<>>
    /\ customers_csv = <<>>
    /\ products = <<>>
    /\ customers = <<>>
    /\ sales = <<>>
    /\ watermark = None
    /\ last = NoRun
    /\ call = [fn |-> "fetch_product_metadata", server |-> <<>>,
               max_pages |-> 1, json_caught |-> TRUE]
    /\ ret = NoCall
    /\ InitEnrichmentStore

\* one more page the API has an answer for
AddFetchPage(r) ==
    /\ call.fn = "fetch_product_metadata"
    /\ ret = NoCall
    /\ Len(call.server) < MaxPages
    /\ call' = [call EXCEPT !.server = Append(@, r)]
    /\ UNCHANGED <<enrichment_store, sales_csv, products_csv, customers_csv, products, customers,
                   sales, watermark, last, ret>>

ApplyFetch(max_pages, json_caught) ==
    /\ call.fn = "fetch_product_metadata"
    /\ ret = NoCall
    /\ call' = [call EXCEPT !.max_pages = max_pages, !.json_caught = json_caught]
    /\ ret' = fetch_product_metadata(call.server, max_pages, json_caught)
    /\ UNCHANGED <<enrichment_store, sales_csv, products_csv, customers_csv, products, customers,
                   sales, watermark, last>>

NextFetch ==
    \/ \E r \in Responses : AddFetchPage(r)
    \/ \E max_pages \in 1..MaxPages, json_caught \in BOOLEAN :
          ApplyFetch(max_pages, json_caught)

SpecFetch == InitFetch /\ [][NextFetch]_vars

----------------------------------------------------------------------------
(* etl_data_enrichment.py: transform_products, transform_sales *)

\* a popularity_score: the number num / den
Ratio(num, den) == [num |-> num, den |-> den]

\* pd.to_numeric(product_id, errors='coerce').astype('Int64').astype(str) on
\* a product_id cell of sales.csv
sale_product_id_str(p) == IF p = NaN THEN "<NA>" ELSE astype_str(p)

\* .str.lower().str.capitalize() on the category cells of the files; a
\* missing cell stays missing
lower_capitalize(s) ==
    CASE s = "books" -> "Books"
      [] s = "FOOD" -> "Food"
      [] s = "InvalidCategory" -> "Invalidcategory"
      [] OTHER -> s

\* the dtype enrich_product_data leaves in products_df['product_id']: the
\* int64 of read_csv when it returns early, str after lines 119-122
enrich_id_dtype(metadata_df) == IF metadata_df = <<>> THEN "int64" ELSE "object"

\* the group keys of sales_df.groupby('product_id'), in the sorted order of
\* the result's index
GroupKeyOrder == <<"1", "2", "3", "<NA>">>

\* sales_df.groupby('product_id')['quantity'].sum(), after line 158: one
\* entry per key, missing quantities skipped
total_sales_quantity(sales_df) ==
    LET HasKey(k) == \E i \in DOMAIN sales_df :
                        sale_product_id_str(sales_df[i].product_id) = k
        keys == SelectSeq(GroupKeyOrder, HasKey)
        Sum(k) ==
            LET F[n \in 0..Len(sales_df)] ==
                    IF n = 0 THEN 0
                    ELSE IF /\ sale_product_id_str(sales_df[n].product_id) = k
                            /\ sales_df[n].quantity # NaN
                         THEN F[n - 1] + sales_df[n].quantity
                         ELSE F[n - 1]
            IN F[Len(sales_df)]
    IN [i \in DOMAIN keys |-> [key |-> keys[i], sum |-> Sum(keys[i])]]

\* total_sales_quantity.max(): NaN for the empty series
max_sales_quantity(total) ==
    IF total = <<>> THEN NaN
    ELSE CHOOSE m \in {total[i].sum : i \in DOMAIN total} :
            \A i \in DOMAIN total : total[i].sum <= m

\* total_sales_quantity.get(x, 0) for the product_id x of a product.  A str
\* x is looked up by label.  An int x is no label of the index: pandas
\* before 3.0 then reads it as a position (by_position), later versions
\* return the default.
series_get(total, x, id_dtype, by_position) ==
    IF id_dtype = "object"
    THEN IF \E i \in DOMAIN total : total[i].key = x
         THEN total[CHOOSE i \in DOMAIN total : total[i].key = x].sum
         ELSE 0
    ELSE IF by_position /\ x + 1 \in DOMAIN total
         THEN total[x + 1].sum
         ELSE 0

\* line 161 raises AttributeError when the category column holds no text:
\* read_csv gives an all-empty column the dtype float64
transform_products_raises(products_df) ==
    /\ products_df # <<>>
    /\ \A i \in DOMAIN products_df : IsNullText(products_df[i].category)

\* pd.to_numeric(price, errors='coerce').abs(): a parse failure stays NaN
price_abs(s) ==
    IF to_numeric(s) = NaN THEN NaN
    ELSE IF to_numeric(s) < 0 THEN 0 - to_numeric(s) ELSE to_numeric(s)

\* transform_products(products_df, sales_df), products_df['product_id']
\* having dtype id_dtype
transform_products(products_df, sales_df, id_dtype, by_position) ==
    LET total == total_sales_quantity(sales_df)
        max_q == max_sales_quantity(total)
        Score(x) == IF max_q # NaN /\ max_q > 0
                    THEN Ratio(series_get(total, x, id_dtype, by_position) * 100, max_q)
                    ELSE Ratio(0, 1)
    IN [i \in DOMAIN products_df |->
          LET r == products_df[i]
          IN [f \in DOMAIN r \cup {"popularity_score"} |->
                CASE f = "category" -> lower_capitalize(r.category)
                  [] f = "price" -> price_abs(r.price)
                  [] f = "popularity_score" -> Score(r.product_id)
                  [] OTHER -> r[f]]]

\* dt.strftime('%Y-%m') on a parsed date: every day of the files is in
\* January 2024; NaT gives a missing label
strftime_month(d) == IF d = NaT THEN "" ELSE "2024-01"

\* transform_sales(sales_df, products_df): lines 197-242; the rows whose
\* date did not parse stay in the frame
transform_sales(sales_df, products_df, id_dtype) ==
    LET PidStr(p) == IF id_dtype = "object" THEN strip(p.product_id)
                     ELSE strip(astype_str(p.product_id))
        RowsFor(s) ==
            LET key == sale_product_id_str(s.product_id)
                Match(p) == PidStr(p) = key
                ps == SelectSeq(products_df, Match)
                Row(price) ==
                    [transaction_id |-> s.transaction_id, product_id |-> key,
                     customer_id |-> s.customer_id, quantity |-> s.quantity,
                     transaction_date |-> to_datetime(s.transaction_date),
                     price |-> price,
                     total_sales_value |-> IF s.quantity = NaN THEN NaN
                                           ELSE s.quantity * price,
                     purchase_month |-> strftime_month(to_datetime(s.transaction_date))]
                priced == SelectSeq(ps, LAMBDA p : p.price # NaN)
            IN [i \in DOMAIN priced |-> Row(priced[i].price)]
        F[n \in 0..Len(sales_df)] ==
            IF n = 0 THEN <<>> ELSE F[n - 1] \o RowsFor(sales_df[n])
    IN F[Len(sales_df)]

TransformProducts ==
    {ProductRow(1, "lamp", "Electronics", "10"),
     ProductRow(2, "", "books", "-5"),
     ProductRow(2, "pen", "InvalidCategory", "abc"),
     ProductRow(1, "lamp", "", "25")}

\* product_id, customer_id, quantity, transaction_date of a row of sales.csv
TransformSaleAttrs ==
    {<<1, 1, 2, DateStrings[1]>>,
     <<1, 1, -3, DateStrings[1]>>,
     <<2, 1, 5, "InvalidDate">>,
     <<NaN, 1, 4, DateStrings[1]>>,
     <<3, 2, 0, DateStrings[2]>>}

TransformMetadata ==
    {MetadataRow("1", "p", "first", 4, "In stock"),
     MetadataRow("7", "p", "second", 0, "In stock")}

TransformResult(raised, cleaned, products_df, sales_df) ==
    [fn |-> "transform", raised |-> raised, cleaned |-> cleaned,
     products_df |-> products_df, sales_df |-> sales_df]

InitTransform ==
    /\ sales_csv = <<>>
    /\ products_csv = <<>>
    /\ customers_csv = <<>>
    /\ products = <<>>
    /\ customers = <<>>
    /\ sales = <<>>
    /\ watermark = None
    /\ last = NoRun
    /\ call = [fn |-> "transform", products_df |-> <<>>, metadata_df |-> <<>>,
               sales_df |-> <<>>, by_position |-> FALSE]
    /\ ret = NoCall
    /\ InitEnrichmentStore

\* one more row of products.csv
AddTransformProduct(r) ==
    /\ call.fn = "transform"
    /\ ret = NoCall
    /\ Len(call.products_df) < MaxBatch
    /\ call' = [call EXCEPT !.products_df = Append(@, r)]
    /\ UNCHANGED <<enrichment_store, sales_csv, products_csv, customers_csv, products, customers,
                   sales, watermark, last, ret>>

\* one more row of sales.csv
AddTransformSale(a) ==
    /\ call.fn = "transform"
    /\ ret = NoCall
    /\ Len(call.sales_df) < MaxBatch
    /\ call' = [call EXCEPT !.sales_df =
                   Append(@, SaleRow(Len(@) + 1, a[1], a[2], a[3], a[4]))]
    /\ UNCHANGED <<enrichment_store, sales_csv, products_csv, customers_csv, products, customers,
                   sales, watermark, last, ret>>

\* one more record in the metadata the API returned
AddTransformMetadata(m) ==
    /\ call.fn = "transform"
    /\ ret = NoCall
    /\ Len(call.metadata_df) < MaxMeta
    /\ call' = [call EXCEPT !.metadata_df = Append(@, m)]
    /\ UNCHANGED <<enrichment_store, sales_csv, products_csv, customers_csv, products, customers,
                   sales, watermark, last, ret>>

\* the product transforms of the two pipelines on the same products.csv:
\* clean_products (load_data.py), and lines 307-308 and 314 of main
ApplyTransform(by_position) ==
    /\ call.fn = "transform"
    /\ ret = NoCall
    /\ call' = [call EXCEPT !.by_position = by_position]
    /\ LET enriched == enrich_product_data(call.products_df, call.metadata_df)
           id_dtype == enrich_id_dtype(call.metadata_df)
           products_df == transform_products(enriched, call.sales_df, id_dtype,
                                             by_position)
       IN ret' = IF transform_products_raises(enriched)
                 THEN TransformResult(TRUE, clean_products(call.products_df),
                                      <<>>, <<>>)
                 ELSE TransformResult(FALSE, clean_products(call.products_df),
                                      products_df,
                                      transform_sales(call.sales_df, products_df,
                                                      id_dtype))
    /\ UNCHANGED <<enrichment_store, sales_csv, products_csv, customers_csv, products, customers,
                   sales, watermark, last>>

NextTransform ==
    \/ \E r \in TransformProducts : AddTransformProduct(r)
    \/ \E a \in TransformSaleAttrs : AddTransformSale(a)
    \/ \E m \in TransformMetadata : AddTransformMetadata(m)
    \/ \E by_position \in BOOLEAN : ApplyTransform(by_position)

SpecTransform == InitTransform /\ [][NextTransform]_vars

----------------------------------------------------------------------------
(* etl_data_enrichment.py: transform_customers, load_to_database,          *)
(* update_etl_state_table, main; with load_data.py's etl_pipeline          *)

MaxRuns == 2        \* runs of main

TransformedTables ==
    {"products_transformed", "sales_transformed", "customers_transformed"}

\* name.str.split(' ', n=1, expand=True) on the names of the files
split_name(name) ==
    CASE name = "Ann Lee" -> <<"Ann", "Lee">>
      [] name = "Bob Ray" -> <<"Bob", "Ray">>
      [] OTHER -> <<name, "">>

\* customers_df.sort_values('customer_id')
RECURSIVE sort_values_customer_id(_)
sort_values_customer_id(df) ==
    IF df = <<>> THEN <<>>
    ELSE LET m == CHOOSE k \in {df[i].customer_id : i \in DOMAIN df} :
                     \A i \in DOMAIN df : k <= df[i].customer_id
             IsMin(r) == r.customer_id = m
             NotMin(r) == r.customer_id # m
         IN SelectSeq(df, IsMin) \o sort_values_customer_id(SelectSeq(df, NotMin))

\* df.drop_duplicates('email', keep='last')
drop_duplicates_email_last(df) ==
    LET F[n \in 0..Len(df)] ==
            IF n = 0 THEN <<>>
            ELSE IF \E j \in (n + 1)..Len(df) : df[j].email = df[n].email
                 THEN F[n - 1]
                 ELSE Append(F[n - 1], df[n])
    IN F[Len(df)]

\* transform_customers(customers_df, sales_df)
transform_customers(customers_df, sales_df) ==
    LET Count(x) == Cardinality({i \in DOMAIN sales_df :
                                    sales_df[i].customer_id = x})
        Buyer(x) == IF Count(x) > 10 THEN "Frequent Buyer"
                    ELSE IF 5 <= Count(x) /\ Count(x) <= 10 THEN "Occasional Buyer"
                    ELSE "Rare Buyer"
        rows == [i \in DOMAIN customers_df |->
                   LET r == customers_df[i]
                   IN [customer_id |-> r.customer_id, name |-> r.name,
                       email |-> r.email, country |-> r.country,
                       first_name |-> split_name(r.name)[1],
                       last_name |-> split_name(r.name)[2],
                       buyer_category |-> Buyer(r.customer_id)]]
    IN drop_duplicates_email_last(sort_values_customer_id(rows))

\* load_to_database(df, table_name) on one table: to_sql(if_exists=
\* "replace"); an exception is logged and the table stays as it was
load_to_database(table, df, ok) == IF ok THEN df ELSE table

\* update_etl_state_table(table_name, engine): one row inserted with the
\* current time; a SQLAlchemyError is logged and nothing is inserted
update_etl_state_table(state, table_name, time, ok) ==
    IF ok THEN Append(state, [table_name |-> table_name, time_processed |-> time])
    ELSE state

\* the statements of main in the order it runs them (lines 301-321)
MainSteps ==
    <<Step("extract", "all"), Step("fetch", "product"),
      Step("transform", "product"), Step("load", "product"),
      Step("record", "product"),
      Step("transform", "sale"), Step("load", "sale"),
      Step("record", "sale"),
      Step("transform", "customer"), Step("load", "customer"),
      Step("record", "customer")>>

\* what a run of main did: the steps it started, the error that ended it
\* ("none" when it reached line 323), the tables whose to_sql succeeded and
\* the tables it inserted an etl_state row for
MainLog(steps, error, loaded, recorded) ==
    [op |-> "main", steps |-> steps, error |-> error, loaded |-> loaded,
     recorded |-> recorded]

\* main(): one whole run.  server is what the API answers; ok_loads and
\* ok_records are the tables whose to_sql and whose etl_state insert the
\* database lets succeed (the inserts succeed or fail together: the
\* etl_state table has the two columns or it has not).  An exception of
\* read_csv or of transform_products reaches the except of line 324 and ends
\* the run.
main(csv_ok, server, by_position, ok_loads, ok_records) ==
    /\ now < MaxRuns
    /\ now' = now + 1
    /\ UNCHANGED <<sales_csv, products_csv, customers_csv, products, customers,
                   sales, watermark, call, ret>>
    /\ LET metadata_df == fetch_product_metadata(server, 5, TRUE).df
           enriched == enrich_product_data(products_csv, metadata_df)
           id_dtype == enrich_id_dtype(metadata_df)
           products_df == transform_products(enriched, sales_csv, id_dtype,
                                             by_position)
           sales_df == transform_sales(sales_csv, products_df, id_dtype)
           customers_df == transform_customers(customers_csv, sales_df)
           Ok(t) == t \in ok_loads
           Rec(t) == t \in ok_records
       IN IF ~csv_ok
          THEN /\ UNCHANGED <<products_transformed, sales_transformed,
                              customers_transformed, etl_state>>
               /\ last' = MainLog(SubSeq(MainSteps, 1, 1), "critical", {}, {})
          ELSE IF transform_products_raises(enriched)
          THEN /\ UNCHANGED <<products_transformed, sales_transformed,
                              customers_transformed, etl_state>>
               /\ last' = MainLog(SubSeq(MainSteps, 1, 3), "critical", {}, {})
          ELSE /\ products_transformed' =
                     load_to_database(products_transformed, products_df,
                                      Ok("products_transformed"))
               /\ sales_transformed' =
                     load_to_database(sales_transformed, sales_df,
                                      Ok("sales_transformed"))
               /\ customers_transformed' =
                     load_to_database(customers_transformed, customers_df,
                                      Ok("customers_transformed"))
               /\ etl_state' =
                     update_etl_state_table(
                        update_etl_state_table(
                           update_etl_state_table(etl_state,
                              "products_transformed", now + 1,
                              Rec("products_transformed")),
                           "sales_transformed", now + 1, Rec("sales_transformed")),
                        "customers_transformed", now + 1,
                        Rec("customers_transformed"))
               /\ last' = MainLog(MainSteps, "none", ok_loads, ok_records)

RunsProductsFiles ==
    StoreProductsFiles \cup {<<ProductRow(1, "lamp", "", "10")>>}

RunsSalesFiles ==
    {<<>>,
     <<SaleRow(1, 1, 1, 2, DateStrings[1]), SaleRow(2, 2, 2, -3, "InvalidDate")>>,
     <<SaleRow(1, NaN, 1, 4, DateStrings[1]), SaleRow(2, 1, NaN, 0, DateStrings[2])>>}

\* the API down, and the API with one page of one record
MainServers ==
    {<<Response("exception", <<>>)>>,
     <<Response("page", <<RawMetadata(" 1 ", "first", "10")>>)>>}

InitRuns ==
    /\ sales_csv \in RunsSalesFiles
    /\ products_csv \in RunsProductsFiles
    /\ customers_csv \in StoreCustomersFiles
    /\ products = <<>>
    /\ customers = <<>>
    /\ sales = <<>>
    /\ watermark = None
    /\ last = NoRun
    /\ call = NoCall
    /\ ret = NoCall
    /\ InitEnrichmentStore

NextRuns ==
    \/ \E csv_ok, by_position \in BOOLEAN, server \in MainServers,
          ok_loads \in SUBSET TransformedTables,
          ok_records \in {{}, TransformedTables} :
          main(csv_ok, server, by_position, ok_loads, ok_records)
    \/ \E extract_ok, clean_ok \in BOOLEAN, fail_at \in 0..3 :
          etl_pipeline(extract_ok, clean_ok, fail_at)

SpecRuns == InitRuns /\ [][NextRuns]_vars

----------------------------------------------------------------------------
(* Properties of the incremental pipeline *)

IsRun == last.op = "process_sales_data"

\* the rows of sales.csv a run selects when it reads the watermark wm
Window(csv, wm) == new_sales_df(read_sales_dropna(csv), wm)

IsPrefix(s, t) == Len(s) <= Len(t) /\ SubSeq(t, 1, Len(s)) = s

\* C1: across runs of process_sales_data, failing steps included, the stored
\* watermark never decreases and is never removed.
C1_WatermarkNeverDecreases ==
    [][watermark # None => (watermark' # None /\ watermark' >= watermark)]_vars

\* a run that read a stored watermark and advanced it to a later day
C1_Witness ==
    /\ IsRun /\ last.lpd # None /\ last.advanced
    /\ watermark > last.lpd

\* C2 (as claimed): a call of update_last_processed_date that completes
\* inserts when there is no row, and otherwise updates only when the new
\* value is not earlier than the stored one.
C2_AdvanceRejectsEarlier ==
    [][(/\ last'.op = "update_last_processed_date"
        /\ last'.error = "none"
        /\ last'.stored = watermark)
       => watermark' = IF watermark = None \/ last'.new_date >= watermark
                       THEN last'.new_date
                       ELSE watermark]_vars

\* C3 (as claimed): with a stored watermark and no row of sales.csv dated
\* after it, a run appends nothing and leaves the watermark.
C3_SecondRunNoOp ==
    [][(watermark # None /\ Window(sales_csv, watermark) = <<>>)
       => (sales' = sales /\ watermark' = watermark)]_vars

\* C4: the watermark changes only in a run whose append succeeded, and to
\* the latest transaction_date of the appended batch; a run whose append
\* failed leaves table and watermark as they were, so the rows it selected
\* are selected again under the stored watermark.
C4_AdvanceOnlyAfterAppend ==
    [][/\ watermark' # watermark =>
            /\ last'.op = "process_sales_data"
            /\ last'.error = "none"
            /\ last'.batch # <<>>
            /\ sales' = sales \o last'.batch
            /\ watermark' = max_date(last'.batch)
       /\ (last'.op = "process_sales_data" /\ last'.error = "to_sql") =>
            /\ watermark' = watermark
            /\ sales' = sales
            /\ last'.lpd = watermark' =>
                   IsPrefix(last'.batch, Window(sales_csv', watermark'))]_vars

\* a run under a stored watermark whose append failed
C4_Witness ==
    /\ IsRun /\ last.error = "to_sql" /\ last.batch # <<>>
    /\ watermark # None /\ last.lpd = watermark
    /\ Window(sales_csv, watermark) = last.batch

\* C5 (as claimed): no row of sales.csv is in the sales table more than once.
C5_NoRowAppendedTwice ==
    \A i, j \in DOMAIN sales :
        i # j => sales[i].transaction_id # sales[j].transaction_id

----------------------------------------------------------------------------
(* Properties of the pipelines that write the sales table *)

HasId(table, tid) == \E i \in DOMAIN table : table[i].transaction_id = tid

\* C6 (as claimed): a run of load_sales_data that follows a run of
\* load_sales_data on the same file appends no row the earlier run appended.
C6_SecondLoadAppendsNothingOld ==
    [][(/\ last.op = "load_sales_data" /\ last.error = "none"
        /\ last'.op = "load_sales_data" /\ last'.error = "none"
        /\ sales' = sales \o last'.batch)
       => \A i \in DOMAIN last'.batch :
             ~HasId(last.batch, last'.batch[i].transaction_id)]_vars

\* C7: every row validate_sales_data returns is an input row whose
\* product_id is in the valid product keys and whose customer_id is in the
\* valid customer keys; an input row failing either test is not returned.
C7_ValidatedRowsReferenceKnownKeys ==
    (call.fn = "validate_sales_data" /\ ret # NoCall) =>
        /\ \A i \in DOMAIN ret.df :
              /\ ret.df[i].product_id \in call.valid_product_ids
              /\ ret.df[i].customer_id \in call.valid_customer_ids
              /\ \E j \in DOMAIN call.df :
                    /\ call.df[j].transaction_id = ret.df[i].transaction_id
                    /\ call.df[j].product_id = ret.df[i].product_id
                    /\ call.df[j].customer_id = ret.df[i].customer_id
        /\ \A j \in DOMAIN call.df :
              (\/ call.df[j].product_id \notin call.valid_product_ids
               \/ call.df[j].customer_id \notin call.valid_customer_ids)
              => ~HasId(ret.df, call.df[j].transaction_id)

\* a batch of which one row is returned and another, complete and with a
\* known product, is left out for its customer_id alone
C7_Witness ==
    /\ call.fn = "validate_sales_data" /\ ret # NoCall
    /\ ret.df # <<>>
    /\ \E j \in DOMAIN call.df :
          /\ call.df[j].product_id \in call.valid_product_ids
          /\ call.df[j].customer_id # NaN
          /\ call.df[j].customer_id \notin call.valid_customer_ids
          /\ call.df[j].transaction_date # NaT
          /\ ~HasId(ret.df, call.df[j].transaction_id)

\* C8 (as claimed): every row of sales has its product_id among the keys of
\* products and its customer_id among the keys of customers.
C8_SalesReferenceDimensions ==
    \A i \in DOMAIN sales :
        /\ sales[i].product_id \in id_list(products, "product_id")
        /\ sales[i].customer_id \in id_list(customers, "customer_id")

\* C9 (as claimed): every row of sales has quantity >= 1, and a validating
\* run leaves out no row for its quantity alone.
C9_PersistedQuantityPositive ==
    /\ \A i \in DOMAIN sales : sales[i].quantity >= 1
    /\ (last.op = "load_sales_data" /\ last.error = "none") =>
          \A j \in DOMAIN sales_csv :
              (/\ sales_csv[j].product_id \in id_list(products, "product_id")
               /\ sales_csv[j].customer_id \in id_list(customers, "customer_id")
               /\ to_datetime(sales_csv[j].transaction_date) # NaT)
              => HasId(last.batch, sales_csv[j].transaction_id)

----------------------------------------------------------------------------
(* Properties of the enrichment *)

\* C10 (as claimed): enrich_product_data returns as many rows as products_df
\* has, one per product row, whatever the metadata collection.
C10_EnrichKeepsRowCount ==
    (call.fn = "enrich_product_data" /\ ret # NoCall) =>
        /\ Len(ret.df) = Len(call.products_df)
        /\ \A i \in DOMAIN ret.df :
              i \in DOMAIN call.products_df
              /\ ret.df[i].product_name = call.products_df[i].product_name

----------------------------------------------------------------------------
(* Properties of fetch_product_metadata *)

\* a response that lets the loop go on to the next page
IsFullPage(r) == r.kind = "page" /\ r.data # <<>>

\* the objects of pages 1..k, in page order
RECURSIVE PagesData(_, _)
PagesData(server, k) ==
    IF k = 0 THEN <<>> ELSE PagesData(server, k - 1) \o page_response(server, k).data

\* C11: fetch_product_metadata sends at most max_pages requests, for pages
\* 1, 2, ... in order, none after the first empty page, non-200 status or
\* request exception, and in all these cases returns, without raising, the
\* records of the pages before that point (the empty frame when there are
\* none).
C11_FetchStopsAndReturns ==
    (ret # NoCall /\ ret.fn = "fetch_product_metadata") =>
        LET n == Len(ret.requests)
            stopped == ~IsFullPage(page_response(call.server, n))
            k == IF stopped THEN n - 1 ELSE n
        IN /\ n >= 1
           /\ n <= call.max_pages
           /\ \A i \in 1..n : ret.requests[i] = i
           /\ \A i \in 1..(n - 1) : IsFullPage(page_response(call.server, i))
           /\ ~stopped => n = call.max_pages
           /\ page_response(call.server, n).kind # "bad_json" =>
                 /\ ~ret.raised
                 /\ Len(ret.df) = Len(PagesData(call.server, k))
                 /\ \A i \in DOMAIN ret.df :
                       /\ ret.df[i].id = strip(PagesData(call.server, k)[i].id)
                       /\ ret.df[i].description =
                             astype_str_text(PagesData(call.server, k)[i].description)

\* a fetch that a non-200 status ended after a page of records
C11_Witness ==
    /\ ret # NoCall
    /\ ret.fn = "fetch_product_metadata"
    /\ Len(ret.requests) = 2
    /\ call.max_pages = 3
    /\ Len(call.server) = 3
    /\ call.server[2].kind = "status"
    /\ IsFullPage(call.server[3])
    /\ ret.df # <<>>
    /\ ~ret.raised

----------------------------------------------------------------------------
(* Properties of the product and sale transforms *)

IsTransformed == ret # NoCall /\ ret.fn = "transform" /\ ~ret.raised

\* C12: every Product row either pipeline writes (clean_products to
\* products; enrich_product_data and transform_products to
\* products_transformed) has a category among Electronics, Clothing, Books,
\* Food and "Other".
C12_CategoryValidOrOther ==
    IsTransformed =>
        /\ \A i \in DOMAIN ret.cleaned :
              ret.cleaned[i].category \in valid_categories \cup {"Other"}
        /\ \A i \in DOMAIN ret.products_df :
              ret.products_df[i].category \in valid_categories \cup {"Other"}

\* the price the product transform is to give a price cell: the absolute
\* value of a number, 0 for anything else
ExpectedPrice(s) ==
    IF to_numeric(s) = NaN THEN 0
    ELSE IF to_numeric(s) < 0 THEN 0 - to_numeric(s) ELSE to_numeric(s)

\* C13: every Product row clean_products or transform_products outputs has
\* a price that is a number >= 0, the absolute value of the input when it
\* parses and 0 when it does not.
C13_PriceAbsOrZero ==
    IsTransformed =>
        /\ \A i \in DOMAIN ret.cleaned :
              /\ ret.cleaned[i].price # NaN
              /\ ret.cleaned[i].price >= 0
              /\ ret.cleaned[i].price = ExpectedPrice(call.products_df[i].price)
        /\ \A i \in DOMAIN ret.products_df :
              /\ ret.products_df[i].price # NaN
              /\ ret.products_df[i].price >= 0
              /\ \E j \in DOMAIN call.products_df :
                    /\ call.products_df[j].product_name =
                          ret.products_df[i].product_name
                    /\ ret.products_df[i].price =
                          ExpectedPrice(call.products_df[j].price)

\* C14: whatever the Product and Sale batches (quantities zero or negative,
\* sale product_ids missing or unknown), every row transform_products
\* outputs has 0 <= popularity_score <= 100, and every score is 0 when the
\* largest per-product sum of quantities is 0.
C14_PopularityWithinRange ==
    IsTransformed =>
        \A i \in DOMAIN ret.products_df :
            LET score == ret.products_df[i].popularity_score
            IN /\ score.den > 0
               /\ 0 <= score.num
               /\ score.num <= 100 * score.den
               /\ max_sales_quantity(total_sales_quantity(call.sales_df)) = 0
                     => score.num = 0

\* C15: after enrich_product_data and transform_products each product's
\* popularity_score is 100 * (its summed quantity / the largest per-product
\* summed quantity), 0 for a product without sales, whether or not the
\* metadata collection was empty.
C15_PopularityIsShareOfMax ==
    IsTransformed =>
        \A i \in DOMAIN ret.products_df :
            LET score == ret.products_df[i].popularity_score
                key == IF call.metadata_df = <<>>
                       THEN astype_str(ret.products_df[i].product_id)
                       ELSE ret.products_df[i].product_id
                total == total_sales_quantity(call.sales_df)
                max_q == max_sales_quantity(total)
                sold == IF \E k \in DOMAIN total : total[k].key = key
                        THEN total[CHOOSE k \in DOMAIN total : total[k].key = key].sum
                        ELSE 0
            IN IF max_q = NaN \/ max_q <= 0
               THEN score.num = 0
               ELSE score.num * max_q = 100 * sold * score.den

\* C16: no row whose transaction_date did not parse is in the output of
\* transform_sales: every output row has a parsed date and the month label
\* made from it.
C16_TransformSalesDropsUnparsedDates ==
    IsTransformed =>
        \A i \in DOMAIN ret.sales_df :
            /\ ret.sales_df[i].transaction_date # NaT
            /\ ret.sales_df[i].purchase_month # ""

----------------------------------------------------------------------------
(* Properties of the pipeline runs *)

IsPipelineRun == last.op \in {"main", "etl_pipeline"}

\* the run had started Step(phase, entity) before its step number i
StartedBefore(i, phase, entity) ==
    \E j \in 1..(i - 1) : last.steps[j] = Step(phase, entity)

\* C17: in every run no Sale transform or load step starts before the
\* Product and the Customer processing of the run is done: the Product and
\* Customer transforms precede every Sale step, and their loads precede the
\* Sale load.
C17_SalesAfterProductsAndCustomers ==
    IsPipelineRun =>
        \A i \in DOMAIN last.steps :
            (last.steps[i].entity = "sale" /\ last.steps[i].phase \in {"transform", "load"}) =>
                \A e \in {"product", "customer"} :
                    /\ StartedBefore(i, "transform", e)
                    /\ last.steps[i].phase = "load" => StartedBefore(i, "load", e)

\* C18: within one run a failed transform or load of one entity does not
\* keep another entity, whose extract and transform succeeded, from being
\* loaded: after a failed load in etl_pipeline the two other tables are
\* written, and main goes through all its loads.
C18_FailureDoesNotBlockOtherLoads ==
    /\ (last.op = "etl_pipeline" /\ last.error = "load") =>
          /\ last.loaded = 2
          /\ products = clean_products(products_csv)
          /\ customers = clean_customers(customers_csv)
    /\ (last.op = "main" /\ last.error = "none") =>
          \A e \in {"product", "customer", "sale"} :
              \E i \in DOMAIN last.steps : last.steps[i] = Step("load", e)

\* C19: main writes an etl_state row (table_name, time_processed) for a
\* table in a run only if the load of that table succeeded in that run.
C19_StateRecordedOnlyAfterLoad ==
    last.op = "main" =>
        \A i \in DOMAIN etl_state :
            etl_state[i].time_processed = now =>
                etl_state[i].table_name \in last.loaded

----------------------------------------------------------------------------
(* Completeness of the incremental pipeline *)

\* C20 (as claimed): after a run of process_sales_data over the growing
\* sales.csv that completed without error, every row of the file with a
\* parsable transaction_date is in the sales table, a row added between
\* runs with a date equal to or earlier than the stored watermark included.
C20_EveryParsableRowLoaded ==
    [][(/\ sales_csv' = sales_csv
        /\ last'.op = "process_sales_data"
        /\ last'.error = "none"
        /\ last'.lpd = watermark
        /\ last'.batch # <<>> => last'.advanced)
       => \A i \in DOMAIN read_sales_dropna(sales_csv') :
             HasId(sales', read_sales_dropna(sales_csv')[i].transaction_id)]_vars

====
